---- MODULE Spec2Model ----
(***************************************************************************)
(* Model of JSON::FrameBuilder (app/src/JSON/FrameBuilder.cpp): the schema *)
(* store (loadJsonMap), the operation mode controller (setOperationMode)   *)
(* and the frame decoder (readData).                                       *)
(*                                                                         *)
(* Text and byte arrays are sequences of ASCII codes.  Paths, titles,      *)
(* widget kinds and frame delimiters are strings that the code only        *)
(* copies and compares.                                                    *)
(***************************************************************************)
EXTENDS Integers, Sequences, FiniteSets, TLC

VARIABLES
  m_opMode,       \* SerialStudio::OperationMode held by the builder
  m_frameParser,  \* the registered frame parser, or nullptr
  m_frame,        \* the held JSON::Frame
  m_jsonMap,      \* the QFile of the schema: [fileName, isOpen]
  m_settings,     \* QSettings: [json_map_location, operation_mode]
  transport,      \* IO::Manager delimiters: [startSequence, finishSequence]
  pc,             \* "idle", or "dialog" while loadJsonMap blocks in a message box
  loading,        \* the path and outcome of the loadJsonMap that is blocked
  op,             \* the handler step taken last, with its inputs
  emitted         \* the signals and dialogs raised by that step, in order

vars == <<m_opMode, m_frameParser, m_frame, m_jsonMap, m_settings, transport,
          pc, loading, op, emitted>>

----------------------------------------------------------------------------
(* Bounds *)

\* most fields a device message or a parser result carries
MaxFields == 3

----------------------------------------------------------------------------
(* SerialStudio enumerations *)

ProjectFile == "ProjectFile"

DeviceSendsJSON == "DeviceSendsJSON"

QuickPlot == "QuickPlot"

OperationModes == {ProjectFile, DeviceSendsJSON, QuickPlot}

PlainText == "PlainText"

Hexadecimal == "Hexadecimal"

Base64 == "Base64"

DecoderMethods == {PlainText, Hexadecimal, Base64}

----------------------------------------------------------------------------
(* Byte array and string primitives used by readData *)

\* QByteArray::split / QString::split on one separator: the pieces between
\* separators, empty pieces kept
RECURSIVE SplitFrom(_, _, _)
SplitFrom(s, sep, cur) ==
  IF s = <<>> THEN <<cur>>
  ELSE IF Head(s) = sep THEN <<cur>> \o SplitFrom(Tail(s), sep, <<>>)
  ELSE SplitFrom(Tail(s), sep, Append(cur, Head(s)))

split(s, sep) == SplitFrom(s, sep, <<>>)

\* the ASCII whitespace bytes: \t \n \v \f \r and space
IsSpace(b) == b \in {9, 10, 11, 12, 13, 32}

\* QByteArray::simplified: whitespace stripped from both ends and every
\* inner run of whitespace replaced by one space
RECURSIVE SimplifiedFrom(_, _)
SimplifiedFrom(s, pendingSpace) ==
  IF s = <<>> THEN <<>>
  ELSE IF IsSpace(Head(s)) THEN SimplifiedFrom(Tail(s), TRUE)
  ELSE (IF pendingSpace THEN <<32>> ELSE <<>>) \o <<Head(s)>>
         \o SimplifiedFrom(Tail(s), FALSE)

RECURSIVE TrimLeft(_)
TrimLeft(s) ==
  IF s # <<>> /\ IsSpace(Head(s)) THEN TrimLeft(Tail(s)) ELSE s

simplified(s) == SimplifiedFrom(TrimLeft(s), FALSE)

\* one lower-case hexadecimal digit
HexDigit(n) == IF n < 10 THEN 48 + n ELSE 87 + n

\* QByteArray::toHex: two digits per byte
RECURSIVE toHex(_)
toHex(s) ==
  IF s = <<>> THEN <<>>
  ELSE <<HexDigit(Head(s) \div 16), HexDigit(Head(s) % 16)>> \o toHex(Tail(s))

\* one character of the base64 alphabet
Base64Char(n) ==
  IF n < 26 THEN 65 + n
  ELSE IF n < 52 THEN 97 + (n - 26)
  ELSE IF n < 62 THEN 48 + (n - 52)
  ELSE IF n = 62 THEN 43 ELSE 47

\* QByteArray::toBase64: four characters per three bytes, '=' padded
RECURSIVE toBase64(_)
toBase64(s) ==
  IF s = <<>> THEN <<>>
  ELSE IF Len(s) = 1 THEN
    <<Base64Char(s[1] \div 4), Base64Char((s[1] % 4) * 16), 61, 61>>
  ELSE IF Len(s) = 2 THEN
    <<Base64Char(s[1] \div 4), Base64Char((s[1] % 4) * 16 + s[2] \div 16),
      Base64Char((s[2] % 16) * 4), 61>>
  ELSE
    <<Base64Char(s[1] \div 4), Base64Char((s[1] % 4) * 16 + s[2] \div 16),
      Base64Char((s[2] % 16) * 4 + s[3] \div 64), Base64Char(s[3] % 64)>>
      \o toBase64(SubSeq(s, 4, Len(s)))

\* QString::fromUtf8 on ASCII bytes: one code point per byte, same number
\* (the messages of this model are ASCII)
fromUtf8(s) == [i \in 1..Len(s) |-> s[i] % 128]

----------------------------------------------------------------------------
(* Frame model: JSON::Frame, JSON::Group, JSON::Dataset *)

\* a default-constructed JSON::Frame, which is also what Frame::clear leaves
EmptyFrame ==
  [title |-> "", groups |-> <<>>, frameStart |-> "", frameEnd |-> ""]

\* Frame::clear: title, delimiters and groups all reset
FrameClear(frame) == EmptyFrame

\* Frame::groupCount
groupCount(frame) == Len(frame.groups)

\* Group::datasetCount
datasetCount(group) == Len(group.datasets)

\* Frame::isValid: a title and at least one group
isValid(frame) == frame.title # "" /\ groupCount(frame) > 0

\* the shape a structured document must have to be read as a Frame: a title
\* and a non-empty list of groups, every group with a widget kind and a list
\* of datasets, every dataset with a title and an integer index
ObjectValid(object) ==
  /\ object.title # ""
  /\ Len(object.groups) > 0
  /\ \A g \in 1..Len(object.groups) :
       /\ object.groups[g].hasWidget
       /\ \A d \in 1..Len(object.groups[g].datasets) :
            /\ object.groups[g].datasets[d].title # ""
            /\ object.groups[g].datasets[d].indexIsInteger

\* the Dataset read from one dataset object of group number id
DatasetOf(object, id) ==
  [groupId |-> id, index |-> object.index, title |-> object.title,
   value |-> object.value, graph |-> object.graph,
   displayInOverview |-> FALSE]

\* the Group read from one group object; groups are numbered from 0
GroupOf(object, id) ==
  [id |-> id, title |-> object.title, widget |-> object.widget,
   datasets |-> [d \in 1..Len(object.datasets) |->
                   DatasetOf(object.datasets[d], id)]]

\* the Frame a valid document describes
FrameOf(object) ==
  [title |-> object.title,
   groups |-> [g \in 1..Len(object.groups) |-> GroupOf(object.groups[g], g - 1)],
   frameStart |-> object.frameStart, frameEnd |-> object.frameEnd]

\* FrameRead with a failed read that clears the frame
FrameRead_ClearsOnFailure(frame, object) ==
  IF ObjectValid(object)
  THEN [ok |-> TRUE, frame |-> FrameOf(object)]
  ELSE [ok |-> FALSE, frame |-> EmptyFrame]

\* Frame::read: a valid document replaces the frame and is reported as read;
\* an invalid one is reported as not read and the frame is left as it was
FrameRead(frame, object) ==
  IF ObjectValid(object)
  THEN [ok |-> TRUE, frame |-> FrameOf(object)]
  ELSE [ok |-> FALSE, frame |-> frame]

----------------------------------------------------------------------------
(* Documents, files and messages the model draws its inputs from *)

\* one dataset object of a document
DatasetObject(title, index, value) ==
  [title |-> title, indexIsInteger |-> TRUE, index |-> index, value |-> value,
   graph |-> TRUE]

\* what QJsonDocument::object() gives for a document that did not parse
EmptyObject ==
  [title |-> "", groups |-> <<>>, frameStart |-> "", frameEnd |-> ""]

\* a project with two groups; indices 1 and 2 are shared or in range, index 0
\* is unassigned and index 9 is beyond every message of the model
ObjectA ==
  [title |-> "A", frameStart |-> "/*", frameEnd |-> "*/",
   groups |-> <<
     [title |-> "G1", hasWidget |-> TRUE, widget |-> "datagrid",
      datasets |-> << DatasetObject("a1", 1, <<>>),
                      DatasetObject("a2", 2, <<>>) >>],
     [title |-> "G2", hasWidget |-> TRUE, widget |-> "",
      datasets |-> << DatasetObject("a3", 2, <<>>),
                      DatasetObject("a4", 0, <<>>),
                      DatasetObject("a5", 9, <<>>) >>] >>]

\* a project with one group, other delimiters, a value in the document and a
\* negative index
ObjectB ==
  [title |-> "B", frameStart |-> "$", frameEnd |-> ";",
   groups |-> <<
     [title |-> "H1", hasWidget |-> TRUE, widget |-> "multiplot",
      datasets |-> << DatasetObject("b1", 3, <<55>>),
                      DatasetObject("b2", -1, <<>>) >>] >>]

\* well-formed syntax, wrong shape: a dataset whose index is not an integer
ObjectBadIndex ==
  [title |-> "I", frameStart |-> "/*", frameEnd |-> "*/",
   groups |-> <<
     [title |-> "G1", hasWidget |-> TRUE, widget |-> "datagrid",
      datasets |-> << [title |-> "i1", indexIsInteger |-> FALSE, index |-> 0,
                       value |-> <<>>, graph |-> FALSE] >>] >>]

\* QJsonDocument::fromJson: the parse error flag and the document's object.
\* The document texts of the model are abbreviated to three bytes each:
\* "{A}", "{B}" and "{I}"; every other text is a syntax error.
fromJson(data) ==
  IF data = <<123, 65, 125>> THEN [error |-> FALSE, object |-> ObjectA]
  ELSE IF data = <<123, 66, 125>> THEN [error |-> FALSE, object |-> ObjectB]
  ELSE IF data = <<123, 73, 125>> THEN [error |-> FALSE, object |-> ObjectBadIndex]
  ELSE [error |-> TRUE, object |-> EmptyObject]

\* the paths a load is tried with; "" is the empty path
Paths == {"", "a.json", "b.json", "badindex.json", "syntax.json", "missing.json"}

\* QFile::open(ReadOnly) on a path: whether the file can be opened
CanOpen(path) == path \in {"a.json", "b.json", "badindex.json", "syntax.json"}

\* QFile::readAll: the bytes of an openable file ("syntax.json" holds "{")
readAll(path) ==
  IF path = "a.json" THEN <<123, 65, 125>>
  ELSE IF path = "b.json" THEN <<123, 66, 125>>
  ELSE IF path = "badindex.json" THEN <<123, 73, 125>>
  ELSE <<123>>

\* the two field texts device messages are made of: "1" and " 2"
FieldBytes(k) == IF k % 2 = 1 THEN <<49>> ELSE <<32, 50>>

\* the message of n comma-separated fields that alternate from field text p
RECURSIVE Joined(_, _)
Joined(n, p) ==
  IF n = 1 THEN FieldBytes(p)
  ELSE Joined(n - 1, p) \o <<44>> \o FieldBytes(p + n - 1)

\* the byte chunks the transport delivers: the empty chunk, a valid document,
\* a document of the wrong shape, and comma-separated text of 1..MaxFields
\* fields (which is no document at all)
Messages ==
  { <<>>, <<123, 66, 125>>, <<123, 73, 125>> }
    \cup { Joined(n, p) : n \in 1..MaxFields, p \in 1..2 }

----------------------------------------------------------------------------
(* Signals and dialogs *)

jsonFileMapChanged == [signal |-> "jsonFileMapChanged"]

operationModeChanged == [signal |-> "operationModeChanged"]

frameChanged(frame) == [signal |-> "frameChanged", frame |-> frame]

\* Misc::Utilities::showMessageBox: a modal dialog; the caller blocks in it
\* while the event loop keeps delivering queued events
showMessageBox(text) == [signal |-> "messageBox", text |-> text]

----------------------------------------------------------------------------
(* Frame parsers: the plug-ins a caller may register *)

nullptr == "nullptr"

\* a parser that splits the frame text on ',' (the default script) and one
\* that fails on every frame, which is an empty field list
Parsers == {"splitOnComma", "noFields"}

\* FrameParser::parse
parse(parser, frameData) ==
  IF parser = "splitOnComma" THEN split(frameData, 44) ELSE <<>>

----------------------------------------------------------------------------
(* loadJsonMap(path), for a non-empty path.  b is the part of the builder it
   works on: [frame, jsonMap, location, transport]. *)

\* lines 148-154: close the previous file, if one is open
ClosePrevious(b) ==
  IF b.jsonMap.isOpen
  THEN [b EXCEPT !.frame = FrameClear(@), !.jsonMap.isOpen = FALSE]
  ELSE b

\* LoadParseError that raises the dialog before the frame is cleared and the
\* file closed
LoadParseError_DialogFirst(b) == [b EXCEPT !.location = ""]

\* lines 164-171: the file does not parse
LoadParseError(b) ==
  [b EXCEPT !.frame = FrameClear(@), !.jsonMap.isOpen = FALSE, !.location = ""]

\* LoadInvalid without the reset of the saved path
LoadInvalid_KeepsPath(b) ==
  [b EXCEPT !.frame = FrameClear(@), !.jsonMap.isOpen = FALSE]

\* lines 193-200: the document is no valid project
LoadInvalid(b) ==
  [b EXCEPT !.frame = FrameClear(@), !.jsonMap.isOpen = FALSE, !.location = ""]

\* lines 207-213: the file cannot be opened
LoadOpenError(b) == [b EXCEPT !.location = ""]

\* LoadValid that pushes the delimiters in every mode
LoadValid_AlwaysPushes(b, mode) ==
  [b EXCEPT !.transport = [startSequence |-> b.frame.frameStart,
                           finishSequence |-> b.frame.frameEnd]]

\* lines 183-191: a valid project; the transport follows it in ProjectFile mode
LoadValid(b, mode) ==
  IF mode = ProjectFile
  THEN [b EXCEPT !.transport = [startSequence |-> b.frame.frameStart,
                                finishSequence |-> b.frame.frameEnd]]
  ELSE b

\* lines 148-213: the load up to its message box, or to its end when the
\* project is valid: the builder part, the outcome and what was emitted
LoadJsonMapBody(b, mode, path) ==
  LET closed == ClosePrevious(b)
      e1     == IF b.jsonMap.isOpen THEN <<jsonFileMapChanged>> ELSE <<>>
      named  == [closed EXCEPT !.jsonMap.fileName = path]
  IN
  IF CanOpen(path) THEN
    LET opened   == [named EXCEPT !.jsonMap.isOpen = TRUE]
        document == fromJson(readAll(path))
    IN
    IF document.error THEN
      [b |-> LoadParseError(opened), result |-> "parse_error",
       emitted |-> Append(e1, showMessageBox("JSON parse error"))]
    ELSE
      LET saved  == [opened EXCEPT !.location = path]
          read   == FrameRead(FrameClear(saved.frame), document.object)
          loaded == [saved EXCEPT !.frame = read.frame]
      IN
      IF read.ok /\ isValid(loaded.frame) THEN
        [b |-> LoadValid(loaded, mode), result |-> "ok", emitted |-> e1]
      ELSE
        [b |-> LoadInvalid(loaded), result |-> "invalid",
         emitted |-> Append(e1, showMessageBox("Invalid JSON project format"))]
  ELSE
    [b |-> LoadOpenError(named), result |-> "open_error",
     emitted |-> Append(e1, showMessageBox("Cannot read JSON file"))]

\* lines 214-218: what follows the message box (or the valid project): the
\* file is closed after an open error
LoadJsonMapEnd(jsonMap, result) ==
  IF result = "open_error" THEN [jsonMap EXCEPT !.isOpen = FALSE] ELSE jsonMap

----------------------------------------------------------------------------
(* setOperationMode(mode) *)

\* ModeDelimiters with a QuickPlot case that leaves the transport alone
ModeDelimiters_QuickPlotKeeps(frame, mode, current) ==
  IF mode = DeviceSendsJSON THEN [startSequence |-> "", finishSequence |-> ""]
  ELSE IF mode = ProjectFile
    THEN [startSequence |-> frame.frameStart, finishSequence |-> frame.frameEnd]
  ELSE current

\* lines 248-265: the delimiters the transport is given for a mode
ModeDelimiters(frame, mode, current) ==
  IF mode = DeviceSendsJSON THEN [startSequence |-> "", finishSequence |-> ""]
  ELSE IF mode = ProjectFile
    THEN [startSequence |-> frame.frameStart, finishSequence |-> frame.frameEnd]
  ELSE IF mode = QuickPlot THEN [startSequence |-> "", finishSequence |-> ""]
  ELSE current

----------------------------------------------------------------------------
(* readData(data) *)

\* lines 318-332: the frame text handed to the parser
DecodeFrame(decoderMethod, data) ==
  IF decoderMethod = Hexadecimal THEN fromUtf8(toHex(data))
  ELSE IF decoderMethod = Base64 THEN fromUtf8(toBase64(data))
  ELSE fromUtf8(data)

\* ReplaceValue that reads the index as 0-based
ReplaceValue_ZeroBased(dataset, fields) ==
  IF dataset.index < Len(fields) /\ dataset.index >= 0
  THEN [dataset EXCEPT !.value = fields[dataset.index + 1]]
  ELSE dataset

\* lines 346-352: one dataset takes the field at its index, if there is one
ReplaceValue(dataset, fields) ==
  IF dataset.index <= Len(fields) /\ dataset.index > 0
  THEN [dataset EXCEPT !.value = fields[dataset.index]]
  ELSE dataset

\* the dataset has a field in the list
HasField(dataset, fields) == dataset.index <= Len(fields) /\ dataset.index > 0

\* ReplaceData that rebuilds each group from the datasets that got a field
ReplaceData_DropsUnmatched(frame, fields) ==
  [frame EXCEPT !.groups =
     [g \in 1..Len(frame.groups) |->
        [frame.groups[g] EXCEPT !.datasets =
           LET kept == SelectSeq(frame.groups[g].datasets,
                                 LAMBDA x : HasField(x, fields))
           IN [d \in 1..Len(kept) |->
                 [kept[d] EXCEPT !.value = fields[kept[d].index]]]]]]

\* lines 343-353: the pass over every dataset of every group
ReplaceData(frame, fields) ==
  [frame EXCEPT !.groups =
     [g \in 1..groupCount(frame) |->
        [frame.groups[g] EXCEPT !.datasets =
           [d \in 1..datasetCount(frame.groups[g]) |->
              ReplaceValue(frame.groups[g].datasets[d], fields)]]]]

\* lines 365-379: one dataset per field, numbered from 1
QuickPlotDatasets(fields) ==
  [channel \in 1..Len(fields) |->
     [groupId |-> 0, index |-> channel,
      title |-> "Channel " \o ToString(channel),
      value |-> fromUtf8(fields[channel]), graph |-> FALSE,
      displayInOverview |-> FALSE]]

\* lines 397-402: the multiplot group
MultiplotGroup(datasets) ==
  [id |-> 1, title |-> "Multiple Plots", widget |-> "multiplot",
   datasets |-> [i \in 1..Len(datasets) |-> [datasets[i] EXCEPT !.groupId = 1]]]

\* PlotsGroup that never promotes a dataset to the overview
PlotsGroup_NoOverview(datasets) ==
  [id |-> 2, title |-> "Individual Plots", widget |-> "",
   datasets |-> [i \in 1..Len(datasets) |->
                   [datasets[i] EXCEPT !.groupId = 2, !.graph = TRUE,
                      !.displayInOverview = FALSE]]]

\* lines 408-417: the group of individual plots
PlotsGroup(datasets) ==
  [id |-> 2, title |-> "Individual Plots", widget |-> "",
   datasets |-> [i \in 1..Len(datasets) |->
                   [datasets[i] EXCEPT !.groupId = 2, !.graph = TRUE,
                      !.displayInOverview = (Len(datasets) = 1)]]]

\* QuickPlotFrame that adds the multiplot group for a single dataset too
QuickPlotFrame_MultiplotForOne(fields) ==
  LET datasets == QuickPlotDatasets(fields)
      datagrid == [id |-> 0, title |-> "Quick Plot Data", widget |-> "datagrid",
                   datasets |-> datasets]
  IN [title |-> "Quick Plot",
      groups |-> <<datagrid>>
                 \o (IF Len(datasets) >= 1 THEN <<MultiplotGroup(datasets)>>
                     ELSE <<>>)
                 \o <<PlotsGroup(datasets)>>,
      frameStart |-> "", frameEnd |-> ""]

\* lines 381-420: the frame built for one QuickPlot message
QuickPlotFrame(fields) ==
  LET datasets == QuickPlotDatasets(fields)
      datagrid == [id |-> 0, title |-> "Quick Plot Data", widget |-> "datagrid",
                   datasets |-> datasets]
  IN [title |-> "Quick Plot",
      groups |-> <<datagrid>>
                 \o (IF Len(datasets) > 1 THEN <<MultiplotGroup(datasets)>>
                     ELSE <<>>)
                 \o <<PlotsGroup(datasets)>>,
      frameStart |-> "", frameEnd |-> ""]

\* ReadDeviceJson that publishes whatever the read reports
ReadDeviceJson_AlwaysEmits(frame, data) ==
  LET jsonData == fromJson(data).object
      read     == FrameRead(frame, jsonData)
  IN [frame |-> read.frame, emitted |-> <<frameChanged(read.frame)>>,
      fields |-> <<>>, parserCalls |-> <<>>]

\* lines 298-304: a message in DeviceSendsJSON mode
ReadDeviceJson(frame, data) ==
  LET jsonData == fromJson(data).object
      read     == FrameRead(frame, jsonData)
  IN [frame |-> read.frame,
      emitted |-> IF read.ok THEN <<frameChanged(read.frame)>> ELSE <<>>,
      fields |-> <<>>, parserCalls |-> <<>>]

\* ReadProjectFile that hands CSV playback to the parser as well
ReadProjectFile_ParsesPlayback(frame, parser, data, csvPlaying, decoderMethod) ==
  LET frameData == DecodeFrame(decoderMethod, data)
      fields == parse(parser, frameData)
      replaced == ReplaceData(frame, fields)
  IN [frame |-> replaced, emitted |-> <<frameChanged(replaced)>>,
      fields |-> fields, parserCalls |-> <<frameData>>]

\* ReadProjectFile that publishes the frame before the values are replaced
ReadProjectFile_EmitsBeforeUpdate(frame, parser, data, csvPlaying, decoderMethod) ==
  LET frameData == DecodeFrame(decoderMethod, data)
      fields == IF ~csvPlaying THEN parse(parser, frameData)
                ELSE split(fromUtf8(simplified(data)), 44)
      replaced == ReplaceData(frame, fields)
  IN [frame |-> replaced, emitted |-> <<frameChanged(frame)>>,
      fields |-> fields,
      parserCalls |-> IF ~csvPlaying THEN <<frameData>> ELSE <<>>]

\* lines 307-357: a message in ProjectFile mode with a parser registered
ReadProjectFile(frame, parser, data, csvPlaying, decoderMethod) ==
  LET frameData == DecodeFrame(decoderMethod, data)
      fields == IF ~csvPlaying THEN parse(parser, frameData)
                ELSE split(fromUtf8(simplified(data)), 44)
      replaced == ReplaceData(frame, fields)
  IN [frame |-> replaced, emitted |-> <<frameChanged(replaced)>>,
      fields |-> fields,
      parserCalls |-> IF ~csvPlaying THEN <<frameData>> ELSE <<>>]

\* ReadQuickPlot that keeps the frame it built as the held frame
ReadQuickPlot_KeepsFrame(frame, data) ==
  LET fields == split(data, 44)
  IN [frame |-> QuickPlotFrame(fields),
      emitted |-> <<frameChanged(QuickPlotFrame(fields))>>,
      fields |-> fields, parserCalls |-> <<>>]

\* lines 360-423: a message in QuickPlot mode
ReadQuickPlot(frame, data) ==
  LET fields == split(data, 44)
  IN [frame |-> frame, emitted |-> <<frameChanged(QuickPlotFrame(fields))>>,
      fields |-> fields, parserCalls |-> <<>>]

\* ReadDataResult without the test for an empty chunk
ReadDataResult_NoEmptyTest(mode, parser, frame, data, csvPlaying, decoderMethod) ==
  IF mode = DeviceSendsJSON THEN ReadDeviceJson(frame, data)
  ELSE IF mode = ProjectFile /\ parser # nullptr THEN
    ReadProjectFile(frame, parser, data, csvPlaying, decoderMethod)
  ELSE IF mode = QuickPlot THEN ReadQuickPlot(frame, data)
  ELSE
    [frame |-> frame, emitted |-> <<>>, fields |-> <<>>, parserCalls |-> <<>>]

\* lines 292-424: the held frame after the message, what was emitted, the
\* field list and the texts the parser was called with
ReadDataResult(mode, parser, frame, data, csvPlaying, decoderMethod) ==
  IF data = <<>> THEN
    [frame |-> frame, emitted |-> <<>>, fields |-> <<>>, parserCalls |-> <<>>]
  ELSE IF mode = DeviceSendsJSON THEN ReadDeviceJson(frame, data)
  ELSE IF mode = ProjectFile /\ parser # nullptr THEN
    ReadProjectFile(frame, parser, data, csvPlaying, decoderMethod)
  ELSE IF mode = QuickPlot THEN ReadQuickPlot(frame, data)
  ELSE
    [frame |-> frame, emitted |-> <<>>, fields |-> <<>>, parserCalls |-> <<>>]

----------------------------------------------------------------------------
(* The state machine *)

\* the record of a handler step; a step fills in the inputs it read
NoCall ==
  [name |-> "constructor", path |-> "", result |-> "", mode |-> "",
   data |-> <<>>, csvPlaying |-> FALSE, decoderMethod |-> "",
   fields |-> <<>>, parserCalls |-> <<>>]

NotLoading == [path |-> "", result |-> ""]

\* lines 39-51: the constructor, run on the settings a previous run left:
\* the mode starts as ProjectFile, the stored map is loaded, then the stored
\* mode is set.  No connection exists yet, so nothing interleaves with it.
Init ==
  \E path \in Paths, mode \in OperationModes :
    LET b0 == [frame |-> EmptyFrame,
               jsonMap |-> [fileName |-> "", isOpen |-> FALSE],
               location |-> path,
               transport |-> [startSequence |-> "", finishSequence |-> ""]]
        load == IF path # "" THEN LoadJsonMapBody(b0, ProjectFile, path)
                ELSE [b |-> b0, result |-> "", emitted |-> <<>>]
    IN /\ m_opMode = mode
       /\ m_frameParser = nullptr
       /\ m_frame = load.b.frame
       /\ m_jsonMap = LoadJsonMapEnd(load.b.jsonMap, load.result)
       /\ m_settings = [json_map_location |-> load.b.location,
                        operation_mode |-> mode]
       /\ transport = ModeDelimiters(load.b.frame, mode, load.b.transport)
       /\ pc = "idle"
       /\ loading = NotLoading
       /\ op = NoCall
       /\ emitted = <<>>

\* lines 142-219: loadJsonMap(path), up to its return or to its message box
LoadJsonMap ==
  /\ pc = "idle"
  /\ \E path \in Paths :
       IF path = "" THEN
         /\ op' = [NoCall EXCEPT !.name = "loadJsonMap", !.result = "empty_path"]
         /\ emitted' = <<>>
         /\ UNCHANGED <<m_opMode, m_frameParser, m_frame, m_jsonMap, m_settings,
                        transport, pc, loading>>
       ELSE
         LET b == [frame |-> m_frame, jsonMap |-> m_jsonMap,
                   location |-> m_settings.json_map_location,
                   transport |-> transport]
             load == LoadJsonMapBody(b, m_opMode, path)
         IN /\ m_frame' = load.b.frame
            /\ m_settings' = [m_settings EXCEPT
                                !.json_map_location = load.b.location]
            /\ transport' = load.b.transport
            /\ IF load.result = "ok"
               THEN /\ m_jsonMap' = LoadJsonMapEnd(load.b.jsonMap, load.result)
                    /\ emitted' = Append(load.emitted, jsonFileMapChanged)
                    /\ pc' = "idle"
                    /\ loading' = NotLoading
               ELSE /\ m_jsonMap' = load.b.jsonMap
                    /\ emitted' = load.emitted
                    /\ pc' = "dialog"
                    /\ loading' = [path |-> path, result |-> load.result]
            /\ op' = [NoCall EXCEPT !.name = "loadJsonMap", !.path = path,
                                    !.result = load.result]
            /\ UNCHANGED <<m_opMode, m_frameParser>>

\* lines 214-218: the message box is dismissed and loadJsonMap returns
LoadJsonMapReturn ==
  /\ pc = "dialog"
  /\ m_jsonMap' = LoadJsonMapEnd(m_jsonMap, loading.result)
  /\ emitted' = <<jsonFileMapChanged>>
  /\ pc' = "idle"
  /\ loading' = NotLoading
  /\ op' = [NoCall EXCEPT !.name = "loadJsonMapReturn", !.path = loading.path,
                          !.result = loading.result]
  /\ UNCHANGED <<m_opMode, m_frameParser, m_frame, m_settings, transport>>

\* lines 225-228: setFrameParser(parser)
SetFrameParser ==
  /\ pc = "idle"
  /\ \E parser \in Parsers \cup {nullptr} :
       /\ m_frameParser' = parser
       /\ op' = [NoCall EXCEPT !.name = "setFrameParser"]
  /\ emitted' = <<>>
  /\ UNCHANGED <<m_opMode, m_frame, m_jsonMap, m_settings, transport, pc,
                 loading>>

\* SetOperationMode without the write to the settings
SetOperationMode_NoPersist ==
  /\ pc = "idle"
  /\ \E mode \in OperationModes :
       /\ m_opMode' = mode
       /\ transport' = ModeDelimiters(m_frame, mode, transport)
       /\ op' = [NoCall EXCEPT !.name = "setOperationMode", !.mode = mode]
  /\ emitted' = <<operationModeChanged>>
  /\ UNCHANGED <<m_frameParser, m_frame, m_jsonMap, m_settings, pc, loading>>

\* lines 243-269: setOperationMode(mode)
SetOperationMode ==
  /\ pc = "idle"
  /\ \E mode \in OperationModes :
       /\ m_opMode' = mode
       /\ transport' = ModeDelimiters(m_frame, mode, transport)
       /\ m_settings' = [m_settings EXCEPT !.operation_mode = mode]
       /\ op' = [NoCall EXCEPT !.name = "setOperationMode", !.mode = mode]
  /\ emitted' = <<operationModeChanged>>
  /\ UNCHANGED <<m_frameParser, m_frame, m_jsonMap, pc, loading>>

\* the inputs readData draws besides the bytes: whether the CSV player is
\* open (line 310) and the decoder method (line 318), each read only on the
\* path that uses it
ReadInputs(data) ==
  IF data # <<>> /\ m_opMode = ProjectFile /\ m_frameParser # nullptr
  THEN { [csvPlaying |-> TRUE, decoderMethod |-> ""] } \cup
       { [csvPlaying |-> FALSE, decoderMethod |-> m] : m \in DecoderMethods }
  ELSE { [csvPlaying |-> FALSE, decoderMethod |-> ""] }

\* lines 292-424: readData(data), delivered from the event queue: between
\* handlers, or while loadJsonMap waits in its message box
ReadData ==
  \E data \in Messages :
    \E in \in ReadInputs(data) :
      LET r == ReadDataResult(m_opMode, m_frameParser, m_frame, data,
                              in.csvPlaying, in.decoderMethod)
      IN /\ m_frame' = r.frame
         /\ emitted' = r.emitted
         /\ op' = [NoCall EXCEPT
                     !.name = "readData", !.data = data,
                     !.csvPlaying = in.csvPlaying,
                     !.decoderMethod = in.decoderMethod,
                     !.fields = r.fields, !.parserCalls = r.parserCalls]
         /\ UNCHANGED <<m_opMode, m_frameParser, m_jsonMap, m_settings,
                        transport, pc, loading>>

Next ==
  \/ LoadJsonMap
  \/ LoadJsonMapReturn
  \/ SetFrameParser
  \/ SetOperationMode
  \/ ReadData

Spec == Init /\ [][Next]_vars

----------------------------------------------------------------------------
(* Vocabulary of the properties *)

\* the delimiters a frame declares, as the transport holds them
DelimitersOf(frame) ==
  [startSequence |-> frame.frameStart, finishSequence |-> frame.frameEnd]

\* a frame with every dataset value blanked: all of it that is not a value
Shape(frame) ==
  [frame EXCEPT !.groups =
     [g \in 1..Len(frame.groups) |->
        [frame.groups[g] EXCEPT !.datasets =
           [d \in 1..Len(frame.groups[g].datasets) |->
              [frame.groups[g].datasets[d] EXCEPT !.value = <<>>]]]]]

\* the datasets of a frame, as <<group, dataset>> positions
Positions(frame) ==
  UNION { { <<g, d>> : d \in 1..Len(frame.groups[g].datasets) } :
            g \in 1..Len(frame.groups) }

\* a load that failed: syntax, structure or file open
LoadFailures == {"parse_error", "invalid", "open_error"}

\* the last step was (part of) a loadJsonMap call with a non-empty path
LoadStep == op.name \in {"loadJsonMap", "loadJsonMapReturn"} /\ op.path # ""

\* the step taken is a readData that ran the ProjectFile pass
ProjectFilePass ==
  /\ op'.name = "readData"
  /\ op'.data # <<>>
  /\ m_opMode = ProjectFile
  /\ m_frameParser # nullptr

----------------------------------------------------------------------------
(* C1 *)

\* C1: right after setOperationMode(mode) the transport delimiters follow the
\* mode table: the held frame's frameStart/frameEnd for ProjectFile, both
\* empty for DeviceSendsJSON and QuickPlot.
C1_ModeTable ==
  op.name = "setOperationMode" =>
    /\ op.mode = ProjectFile =>
         /\ transport.startSequence = m_frame.frameStart
         /\ transport.finishSequence = m_frame.frameEnd
    /\ op.mode \in {DeviceSendsJSON, QuickPlot} =>
         /\ transport.startSequence = ""
         /\ transport.finishSequence = ""

\* a switch into ProjectFile with a schema that declares delimiters
C1_Witness ==
  /\ op.name = "setOperationMode"
  /\ op.mode = ProjectFile
  /\ m_frame.frameStart = "$"
  /\ transport = [startSequence |-> "$", finishSequence |-> ";"]

----------------------------------------------------------------------------
(* C2 *)

\* C2 (as claimed): whenever no load is in progress and the mode is
\* ProjectFile, the transport delimiters are those of the held frame, empty
\* when the held frame is empty.
C2_DelimitersFollowSchema ==
  (pc = "idle" /\ m_opMode = ProjectFile) => transport = DelimitersOf(m_frame)

----------------------------------------------------------------------------
(* C3 *)

\* C3 (as claimed): when a loadJsonMap with a non-empty path has failed, the
\* held frame is empty as soon as the load has done its work (before any
\* other handler runs).
C3_FailedLoadClearsFrame ==
  (op.name = "loadJsonMap" /\ op.result \in LoadFailures) => m_frame = EmptyFrame

----------------------------------------------------------------------------
(* C4 *)

\* C4: from the moment a loadJsonMap(path) with a non-empty path has done its
\* work until it has returned, the persisted json_map_location is path if the
\* load succeeded and empty if it failed (syntax, structure or file open).
C4_PersistedPath ==
  LoadStep =>
    /\ op.result \in LoadFailures \cup {"ok"}
    /\ op.result = "ok" => m_settings.json_map_location = op.path
    /\ op.result \in LoadFailures => m_settings.json_map_location = ""

\* a load that saved the path, found the project invalid and has returned
C4_Witness ==
  /\ pc = "idle"
  /\ op.name = "loadJsonMapReturn"
  /\ op.path = "badindex.json"
  /\ op.result = "invalid"
  /\ m_settings.json_map_location = ""

----------------------------------------------------------------------------
(* C5 *)

\* C5: a ProjectFile readData that applies n fields sets the value of every
\* dataset with 1 <= index <= n to fields[index] (1-based) and leaves the
\* value of every other dataset as it was.
C5_MutationPass ==
  [][ ProjectFilePass =>
        \A p \in Positions(m_frame) :
          LET old == m_frame.groups[p[1]].datasets[p[2]]
              new == m_frame'.groups[p[1]].datasets[p[2]]
              n   == Len(op'.fields)
          IN IF 1 <= old.index /\ old.index <= n
             THEN new.value = op'.fields[old.index]
             ELSE new.value = old.value ]_vars

\* after a one-field message: index 1 carries its field, index 2 still
\* carries the field of an earlier, longer message, index 0 and 9 carry none
C5_Witness ==
  /\ op.name = "readData"
  /\ m_opMode = ProjectFile
  /\ Len(op.fields) = 1
  /\ m_frame.title = "A"
  /\ m_frame.groups[1].datasets[1].value = op.fields[1]
  /\ m_frame.groups[1].datasets[2].value = <<32, 50>>
  /\ m_frame.groups[2].datasets[1].value = <<32, 50>>
  /\ m_frame.groups[2].datasets[2].value = <<>>
  /\ m_frame.groups[2].datasets[3].value = <<>>

----------------------------------------------------------------------------
(* C6 *)

\* C6: a readData in ProjectFile mode changes dataset values only: the shape
\* of the held frame (groups, datasets, indices, titles, flags, title and
\* delimiters), the mode, the settings, the schema file and the transport
\* delimiters are the same after it.
C6_OnlyValuesChange ==
  [][ (op'.name = "readData" /\ m_opMode = ProjectFile) =>
        /\ Shape(m_frame') = Shape(m_frame)
        /\ m_opMode' = m_opMode
        /\ m_settings' = m_settings
        /\ m_jsonMap' = m_jsonMap
        /\ transport' = transport ]_vars

\* a ProjectFile message has just changed values of the loaded schema B
C6_Witness ==
  /\ op.name = "readData"
  /\ m_opMode = ProjectFile
  /\ Len(op.fields) = 3
  /\ m_frame.title = "B"
  /\ m_frame.groups[1].datasets[1].value = op.fields[3]
  /\ m_frame.groups[1].datasets[1].value # <<55>>

----------------------------------------------------------------------------
(* C7 *)

\* C7 (as claimed): while a schema file is open, no readData and no
\* setOperationMode changes the shape of the held frame.
C7_SchemaOnlyReplacedByLoad ==
  [][ (m_jsonMap.isOpen /\ op'.name \in {"readData", "setOperationMode"}) =>
        Shape(m_frame') = Shape(m_frame) ]_vars

----------------------------------------------------------------------------
(* C8 *)

\* the frame has exactly the content of the document
FrameMatches(frame, object) ==
  /\ frame.title = object.title
  /\ frame.frameStart = object.frameStart
  /\ frame.frameEnd = object.frameEnd
  /\ Len(frame.groups) = Len(object.groups)
  /\ \A g \in 1..Len(object.groups) :
       /\ frame.groups[g].title = object.groups[g].title
       /\ frame.groups[g].widget = object.groups[g].widget
       /\ Len(frame.groups[g].datasets) = Len(object.groups[g].datasets)
       /\ \A d \in 1..Len(object.groups[g].datasets) :
            /\ frame.groups[g].datasets[d].index = object.groups[g].datasets[d].index
            /\ frame.groups[g].datasets[d].title = object.groups[g].datasets[d].title
            /\ frame.groups[g].datasets[d].value = object.groups[g].datasets[d].value

\* C8: in DeviceSendsJSON mode readData emits frameChanged exactly when the
\* bytes are a valid document, and then exactly once with a frame that has the
\* content of that document; otherwise it emits nothing, no dialog either.
C8_DeviceJsonPublishes ==
  (op.name = "readData" /\ m_opMode = DeviceSendsJSON) =>
    LET document == fromJson(op.data)
    IN IF ~document.error /\ ObjectValid(document.object)
       THEN /\ Len(emitted) = 1
            /\ emitted[1].signal = "frameChanged"
            /\ FrameMatches(emitted[1].frame, document.object)
       ELSE emitted = <<>>

\* document B published while schema A's file is open and no parser is set
C8_Witness ==
  /\ op.name = "readData"
  /\ m_opMode = DeviceSendsJSON
  /\ m_frameParser = nullptr
  /\ m_jsonMap.isOpen
  /\ m_jsonMap.fileName = "a.json"
  /\ emitted = <<frameChanged(FrameOf(ObjectB))>>

----------------------------------------------------------------------------
(* C9 *)

\* C9 (as claimed): a readData in ProjectFile mode emits nothing when the
\* held frame is empty and nothing when no frame parser is registered.
C9_DroppedWithoutSchemaOrParser ==
  (/\ op.name = "readData"
   /\ m_opMode = ProjectFile
   /\ (m_frame = EmptyFrame \/ m_frameParser = nullptr)) => emitted = <<>>

----------------------------------------------------------------------------
(* C10 *)

\* C10: in DeviceSendsJSON mode a readData whose bytes are no valid document
\* leaves the held frame, the mode, the settings, the schema file and the
\* transport delimiters as they were.
C10_MalformedIsNoOp ==
  [][ (/\ op'.name = "readData"
       /\ m_opMode = DeviceSendsJSON
       /\ ~ObjectValid(fromJson(op'.data).object)) =>
        /\ m_frame' = m_frame
        /\ m_opMode' = m_opMode
        /\ m_settings' = m_settings
        /\ m_jsonMap' = m_jsonMap
        /\ transport' = transport ]_vars

\* a document of the wrong shape has just been dropped with schema A held
C10_Witness ==
  /\ op.name = "readData"
  /\ m_opMode = DeviceSendsJSON
  /\ op.data = <<123, 73, 125>>
  /\ m_frame.title = "A"
  /\ emitted = <<>>

----------------------------------------------------------------------------
(* C11 *)

\* the last step was a readData of a non-empty message in QuickPlot mode
QuickPlotMessage ==
  op.name = "readData" /\ op.data # <<>> /\ m_opMode = QuickPlot

\* the ids and widget kinds of a frame's groups, in order
GroupKinds(frame) ==
  [g \in 1..Len(frame.groups) |-> <<frame.groups[g].id, frame.groups[g].widget>>]

\* C11: a non-empty QuickPlot message of N comma-separated fields publishes
\* one frame; its groups are datagrid (id 0) and the individual plots (id 2,
\* empty widget kind) for N = 1, with multiplot (id 1) between them for
\* N > 1; every group holds N datasets.
C11_QuickPlotGroups ==
  QuickPlotMessage =>
    LET N == Len(split(op.data, 44))
    IN /\ Len(emitted) = 1
       /\ emitted[1].signal = "frameChanged"
       /\ GroupKinds(emitted[1].frame) =
            IF N = 1 THEN << <<0, "datagrid">>, <<2, "">> >>
            ELSE << <<0, "datagrid">>, <<1, "multiplot">>, <<2, "">> >>
       /\ \A g \in 1..Len(emitted[1].frame.groups) :
            Len(emitted[1].frame.groups[g].datasets) = N

\* a three-field message published as three groups of three datasets
C11_Witness ==
  /\ QuickPlotMessage
  /\ op.data = <<49, 44, 32, 50, 44, 49>>
  /\ Len(emitted[1].frame.groups) = 3
  /\ Len(emitted[1].frame.groups[2].datasets) = 3

----------------------------------------------------------------------------
(* C12 *)

\* C12: in every frame published in QuickPlot mode the dataset at position p
\* of every group has index p and the p-th field as value, and carries the id
\* of its group; datagrid datasets are not graphed, individual plots are, and
\* an individual plot is shown in the overview iff the message had one field.
C12_QuickPlotDatasets ==
  QuickPlotMessage =>
    LET fields == split(op.data, 44)
        groups == emitted[1].frame.groups
    IN \A g \in 1..Len(groups) :
         \A p \in 1..Len(groups[g].datasets) :
           LET dataset == groups[g].datasets[p]
           IN /\ dataset.index = p
              /\ dataset.value = fields[p]
              /\ dataset.groupId = groups[g].id
              /\ groups[g].widget = "datagrid" => ~dataset.graph
              /\ groups[g].id = 2 =>
                   /\ dataset.graph
                   /\ dataset.displayInOverview <=> (Len(fields) = 1)

\* a one-field message: its individual plot is promoted to the overview
C12_Witness ==
  /\ QuickPlotMessage
  /\ op.data = <<32, 50>>
  /\ Len(emitted[1].frame.groups) = 2
  /\ emitted[1].frame.groups[2].datasets[1].displayInOverview
  /\ emitted[1].frame.groups[2].datasets[1].value = <<32, 50>>

----------------------------------------------------------------------------
(* C13 *)

----------------------------------------------------------------------------
(* C14 *)

\* the message of the last readData is one its mode accepts
Accepted ==
  /\ op.name = "readData"
  /\ op.data # <<>>
  /\ \/ m_opMode = DeviceSendsJSON /\ ObjectValid(fromJson(op.data).object)
     \/ m_opMode = ProjectFile /\ m_frameParser # nullptr /\ m_frame # EmptyFrame
     \/ m_opMode = QuickPlot

\* C14: a readData emits at most one signal, a frameChanged, and exactly one
\* when the message is accepted; in the modes that decode into the held frame
\* the published frame is the held frame with all of the message's values in.
C14_OneEventPerMessage ==
  op.name = "readData" =>
    /\ Len(emitted) <= 1
    /\ \A i \in 1..Len(emitted) : emitted[i].signal = "frameChanged"
    /\ Accepted => Len(emitted) = 1
    /\ (Accepted /\ m_opMode # QuickPlot) => emitted[1].frame = m_frame
    /\ (Accepted /\ m_opMode = ProjectFile) =>
         \A p \in Positions(m_frame) :
           LET dataset == emitted[1].frame.groups[p[1]].datasets[p[2]]
           IN (1 <= dataset.index /\ dataset.index <= Len(op.fields)) =>
                dataset.value = op.fields[dataset.index]

\* an accepted ProjectFile message published with its third field in place
C14_Witness ==
  /\ Accepted
  /\ m_opMode = ProjectFile
  /\ m_frame.title = "B"
  /\ Len(op.fields) = 3
  /\ emitted[1].frame.groups[1].datasets[1].value = <<49>>

----------------------------------------------------------------------------
(* C15 *)

\* C15: the active mode is always one of the three modes and the persisted
\* operation_mode equals it; right after setOperationMode(mode) the active
\* mode is mode and exactly one operationModeChanged has been emitted.
C15_ModePersisted ==
  /\ m_opMode \in OperationModes
  /\ m_settings.operation_mode = m_opMode
  /\ op.name = "setOperationMode" =>
       /\ m_opMode = op.mode
       /\ emitted = <<operationModeChanged>>

\* a switch to QuickPlot while a schema is loaded, persisted and announced
C15_Witness ==
  /\ op.name = "setOperationMode"
  /\ op.mode = QuickPlot
  /\ m_settings.operation_mode = QuickPlot
  /\ m_jsonMap.isOpen
  /\ emitted = <<operationModeChanged>>

----------------------------------------------------------------------------
(* C16 *)

\* the last step was a readData that ran the ProjectFile branch
ProjectFileMessage ==
  /\ op.name = "readData"
  /\ op.data # <<>>
  /\ m_opMode = ProjectFile
  /\ m_frameParser # nullptr

\* the pass and the publish followed: every dataset with a field carries it
\* and the held frame was published once
PassAndPublish ==
  /\ \A p \in Positions(m_frame) :
       LET dataset == m_frame.groups[p[1]].datasets[p[2]]
       IN (1 <= dataset.index /\ dataset.index <= Len(op.fields)) =>
            dataset.value = op.fields[dataset.index]
  /\ emitted = <<frameChanged(m_frame)>>

\* without playback the parser is called once, with the decoded text, and
\* its result is the field list
ParsedOnce ==
  /\ Len(op.parserCalls) = 1
  /\ op.parserCalls[1] = DecodeFrame(op.decoderMethod, op.data)
  /\ op.fields = parse(m_frameParser, op.parserCalls[1])

\* C16 (as claimed): with a playback source open the field list is the
\* message text split on ',' and the parser is not called; without one the
\* parser is called once and its result is the field list; the pass and the
\* publish follow in both cases.
C16_PlaybackSplitsMessageText ==
  ProjectFileMessage =>
    /\ op.csvPlaying =>
         /\ op.fields = split(fromUtf8(op.data), 44)
         /\ op.parserCalls = <<>>
    /\ ~op.csvPlaying => ParsedOnce
    /\ PassAndPublish

\* C16 (amended): as above, with a frame parser registered, and with a
\* playback source open the field list is the message text with its
\* whitespace simplified (stripped at both ends, inner runs collapsed to one
\* space), split on ','.
C16_PlaybackSplitsSimplifiedText ==
  ProjectFileMessage =>
    /\ op.csvPlaying =>
         /\ op.fields = split(fromUtf8(simplified(op.data)), 44)
         /\ op.parserCalls = <<>>
    /\ ~op.csvPlaying => ParsedOnce
    /\ PassAndPublish

\* the playback row " 2,1": its first field reaches index 1 without the
\* leading space
C16_Witness ==
  /\ ProjectFileMessage
  /\ op.csvPlaying
  /\ op.data = <<32, 50, 44, 49>>
  /\ op.fields = << <<50>>, <<49>> >>
  /\ m_frame.title = "A"
  /\ m_frame.groups[1].datasets[1].value = <<50>>

----------------------------------------------------------------------------
(* C17 *)

\* C17: whenever the mode is DeviceSendsJSON or QuickPlot, both transport
\* delimiters are empty, whatever was loaded or received.
C17_NoDelimitersOutsideProjectFile ==
  m_opMode \in {DeviceSendsJSON, QuickPlot} =>
    /\ transport.startSequence = ""
    /\ transport.finishSequence = ""

\* schema A, which declares delimiters, has just been loaded in QuickPlot mode
C17_Witness ==
  /\ op.name = "loadJsonMap"
  /\ op.result = "ok"
  /\ m_opMode = QuickPlot
  /\ m_frame.frameStart = "/*"
  /\ transport.startSequence = ""

----------------------------------------------------------------------------
(* C18 *)

\* C18: a readData in QuickPlot mode leaves the held frame (and the rest of
\* the builder) as it was, and the frame it publishes for a non-empty message
\* is made of that message alone: its title and delimiters are the fixed
\* QuickPlot ones and its groups hold one dataset per field of the message,
\* each with that field as value.  A change of mode leaves the held frame as
\* it was too, so the schema is still there back in ProjectFile mode.
C18_QuickPlotLeavesSchema ==
  [][ /\ op'.name = "setOperationMode" => m_frame' = m_frame
      /\ (op'.name = "readData" /\ m_opMode = QuickPlot) =>
           /\ m_frame' = m_frame
           /\ UNCHANGED <<m_opMode, m_jsonMap, m_settings, transport>>
           /\ op'.data # <<>> =>
                LET fields == split(op'.data, 44)
                    frame  == emitted'[1].frame
                IN /\ Len(emitted') = 1
                   /\ frame.title = "Quick Plot"
                   /\ frame.frameStart = "" /\ frame.frameEnd = ""
                   /\ \A g \in 1..Len(frame.groups) :
                        /\ Len(frame.groups[g].datasets) = Len(fields)
                        /\ \A d \in 1..Len(fields) :
                             frame.groups[g].datasets[d].value = fields[d] ]_vars

\* a QuickPlot message received while schema B, with a decoded value, is held
C18_Witness ==
  /\ op.name = "readData"
  /\ m_opMode = QuickPlot
  /\ op.data = <<49, 44, 32, 50>>
  /\ m_frame.title = "B"
  /\ m_frame.groups[1].datasets[1].value = <<32, 50>>
  /\ emitted[1].frame.title = "Quick Plot"

----------------------------------------------------------------------------
(* C19 *)

\* C19: readData with an empty chunk does nothing in any mode: it emits
\* nothing, does not call the parser and leaves the held frame, the mode, the
\* schema file, the settings and the transport delimiters as they were.
C19_EmptyChunkIsNoOp ==
  [][ (op'.name = "readData" /\ op'.data = <<>>) =>
        /\ emitted' = <<>>
        /\ op'.parserCalls = <<>>
        /\ UNCHANGED <<m_opMode, m_frameParser, m_frame, m_jsonMap, m_settings,
                       transport>> ]_vars

\* an empty chunk in ProjectFile mode with schema and parser in place
C19_Witness ==
  /\ op.name = "readData"
  /\ op.data = <<>>
  /\ m_opMode = ProjectFile
  /\ m_frameParser = "splitOnComma"
  /\ m_frame.title = "A"
  /\ emitted = <<>>

----------------------------------------------------------------------------
(* C20 *)

\* the persisted path is set exactly when jsonMapFilepath() (lines 74-83) is
\* non-empty, and then names that file
PathMatchesOpenFile ==
  /\ (m_settings.json_map_location # "") <=> m_jsonMap.isOpen
  /\ m_jsonMap.isOpen => m_settings.json_map_location = m_jsonMap.fileName

\* the held frame is the valid frame read from the open file (dataset values
\* aside, which decoding replaces)
HeldFrameIsOpenFile ==
  m_jsonMap.isOpen =>
    LET document == fromJson(readAll(m_jsonMap.fileName))
    IN /\ ~document.error
       /\ isValid(FrameOf(document.object))
       /\ Shape(m_frame) = Shape(FrameOf(document.object))

\* C20: whenever no loadJsonMap call is in progress, the persisted path is
\* non-empty exactly when a schema file is open.
C20_PathMatchesOpenFile ==
  pc = "idle" => PathMatchesOpenFile

\* C20: whenever no loadJsonMap call is in progress, the persisted path is
\* non-empty exactly when a schema file is open, and the held frame of an open
\* schema file is the valid frame read from that file.
C20_OpenFileBacksFrame ==
  pc = "idle" => (PathMatchesOpenFile /\ HeldFrameIsOpenFile)

====
